---- MODULE Spec2Model ----
(***************************************************************************)
(* blaunch: an application launcher.  The user types into a text entry;    *)
(* resolve() narrows a menu forest of shortcuts down to one command, which *)
(* the input-change handler spawns.  Input that begins with the shell      *)
(* prefix is run with `sh -c` on Enter instead.  Source: src/src/main.rs.  *)
(***************************************************************************)
EXTENDS Integers, Sequences, FiniteSets, TLC

(***************************************************************************)
(* Bounds of the model.                                                    *)
(***************************************************************************)
\* Spec: resolve applied to a whole menu at once.
MaxNodes == 3
MaxShortcutLen == 2
MaxInputLen == 3

\* StepSpec: resolve run statement by statement.
StepNodes == 2
StepShortcutLen == 2
StepInputLen == 2

\* SessionSpec: the window, its entry and the two handlers.
SessionNodes == 1
SessionStrLen == 1
SessionInputLen == 2

\* Key values of gdk (main.rs 13-14).
KEY_ESCAPE == 65307
KEY_ENTER == 65293

(***************************************************************************)
(* Text.  A Rust String is UTF-8: a string of the model is a sequence of   *)
(* characters, and each character encodes to one or more bytes.  "a" is an *)
(* ASCII letter (one byte), "U" a two-byte character such as U+00E9.       *)
(***************************************************************************)
Alphabet == {"a", "U"}

utf8(c) == IF c = "a" THEN <<97>> ELSE <<195, 169>>

RECURSIVE as_bytes(_)
as_bytes(s) == IF s = <<>> THEN <<>> ELSE utf8(Head(s)) \o as_bytes(Tail(s))

\* String::len: the length in bytes.
str_len(s) == Len(as_bytes(s))

\* str::starts_with: a comparison of the encoded bytes.
starts_with(s, pat) ==
    LET b == as_bytes(s)
        p == as_bytes(pat)
    IN  Len(p) <= Len(b) /\ SubSeq(b, 1, Len(p)) = p

\* s.chars().skip(n).collect(): drops the first n CHARACTERS of s.
chars_skip(s, n) == IF n >= Len(s) THEN <<>> ELSE SubSeq(s, n + 1, Len(s))

Str(n) == UNION {[1..k -> Alphabet] : k \in 0..n}

(***************************************************************************)
(* Option<T>: None is the empty sequence, Some(x) the sequence <<x>>.      *)
(***************************************************************************)
None == <<>>
Some(x) == <<x>>

(***************************************************************************)
(* Node and Config (main.rs 16-28).  The menu is an owned tree             *)
(* (Vec<Node>); resolve works on references (&Node), which the model       *)
(* writes as node identifiers: two nodes that hold equal fields are still  *)
(* two nodes.  A config is [shell_prefix, menu, node], with menu the       *)
(* sequence of the root nodes' identifiers and node[i] the fields of node  *)
(* i; children is Some(the child identifiers in order) or None.            *)
(* description is display-only and is left out.                            *)
(***************************************************************************)
Node(shortcut, command, children) ==
    [shortcut |-> shortcut, command |-> command, children |-> children]

RECURSIVE Ascending(_)
Ascending(S) ==
    IF S = {} THEN <<>>
    ELSE LET m == CHOOSE x \in S : \A y \in S : x <= y
         IN  <<m>> \o Ascending(S \ {m})

\* The identifiers of the nodes whose parent is p (0: the root list), in order.
ChildIds(parent, p) == Ascending({j \in DOMAIN parent : parent[j] = p})

\* Every tree shape on n nodes: a parent below each node's own identifier.
Shapes(n) == {parent \in [1..n -> 0..n] : \A i \in 1..n : parent[i] < i}

\* A node with child nodes has children = Some(..); grp says, of a node with
\* none, whether it has children = Some(empty) or children = None.
GroupFlags(parent) ==
    {grp \in [DOMAIN parent -> BOOLEAN] :
        \A i \in DOMAIN parent : ChildIds(parent, i) # <<>> => grp[i]}

MenuOf(parent, sc, cmd, grp) ==
    [menu |-> ChildIds(parent, 0),
     node |-> [i \in DOMAIN parent |->
                 Node(sc[i], cmd[i],
                      IF grp[i] THEN Some(ChildIds(parent, i)) ELSE None)]]

Config(shell_prefix, m) ==
    [shell_prefix |-> shell_prefix, menu |-> m.menu, node |-> m.node]

(***************************************************************************)
(* resolve (main.rs 30-83).                                                *)
(***************************************************************************)
Partial(nodes) == [kind |-> "Partial", nodes |-> nodes]
Complete(n) == [kind |-> "Complete", node |-> n]

\* A wrong push: the new element goes to the front.
push_front(v, x) == <<x>> \o v

\* Vec::push
push(v, x) == Append(v, x)

\* borrow_nodes: the references to the nodes of a Vec<Node>, in its order.
RECURSIVE borrow_nodes_from(_, _, _)
borrow_nodes_from(nodes, i, ret) ==
    IF i > Len(nodes) THEN ret
    ELSE borrow_nodes_from(nodes, i + 1, push(ret, nodes[i]))

borrow_nodes(nodes) == borrow_nodes_from(nodes, 1, <<>>)

\* The input left once shortcut has matched the front of command (62-63):
\* skip() counts characters and is given String::len, a count of bytes.
remaining_of(command, shortcut) == chars_skip(command, str_len(shortcut))

\* Lines 54-56: n joins partial when its shortcut starts with command.
collect_partial(T, n, command, partial) ==
    IF starts_with(T[n].shortcut, command) THEN push(partial, n) ELSE partial

\* What a matched node makes resolve do: return a value, or call itself.
Return(value) == [kind |-> "return", value |-> value]
Call(nodes, command) == [kind |-> "call", nodes |-> nodes, command |-> command]

\* A wrong lines 65-79: a node whose shortcut uses up the input is Complete,
\* children or not.
match_outcome_ignoring_children(T, n, command) ==
    LET remaining == remaining_of(command, T[n].shortcut)
    IN  IF str_len(remaining) = 0 THEN Return(Complete(n))
        ELSE IF T[n].children # None
        THEN Call(borrow_nodes(T[n].children[1]), remaining)
        ELSE Return(Partial(<<>>))

\* A wrong lines 76-79: input left over at a node without children panics.
match_outcome_panicking(T, n, command) ==
    LET remaining == remaining_of(command, T[n].shortcut)
    IN  IF str_len(remaining) = 0 /\ T[n].children = None
        THEN Return(Complete(n))
        ELSE IF str_len(remaining) = 0
        THEN Return(Partial(borrow_nodes(T[n].children[1])))
        ELSE IF T[n].children # None
        THEN Call(borrow_nodes(T[n].children[1]), remaining)
        ELSE Return([kind |-> "Panic"])

\* Lines 62-79: node n's shortcut is a prefix of command.
match_outcome(T, n, command) ==
    LET remaining == remaining_of(command, T[n].shortcut)
    IN  IF str_len(remaining) = 0 /\ T[n].children = None
        THEN Return(Complete(n))
        ELSE IF str_len(remaining) = 0
        THEN (IF T[n].children # None
              THEN Return(Partial(borrow_nodes(T[n].children[1])))
              ELSE Return(Complete(n)))
        ELSE (IF T[n].children # None
              THEN Call(borrow_nodes(T[n].children[1]), remaining)
              ELSE Return(Partial(<<>>)))

RECURSIVE resolve(_, _, _)
RECURSIVE resolve_loop(_, _, _, _, _)

\* The for loop of resolve from its i-th node on (53-82).
resolve_loop(T, nodes, command, i, partial) ==
    IF i > Len(nodes) THEN Partial(partial)
    ELSE LET n == nodes[i]
             partial2 == collect_partial(T, n, command, partial)
         IN  IF ~starts_with(command, T[n].shortcut)
             THEN resolve_loop(T, nodes, command, i + 1, partial2)
             ELSE LET o == match_outcome(T, n, command)
                  IN  IF o.kind = "return" THEN o.value
                      ELSE resolve(T, o.nodes, o.command)

\* resolve(nodes, command), over the nodes T of the menu (46-83).
resolve(T, nodes, command) ==
    IF str_len(command) = 0 THEN Partial(nodes)
    ELSE resolve_loop(T, nodes, command, 1, <<>>)

(***************************************************************************)
(* State.                                                                  *)
(***************************************************************************)
VARIABLES
    config,     \* the Config read at startup: shell_prefix, menu, node
    input,      \* resolve's argument command, as its first caller passed it
    result,     \* what resolve returned, NotYet before it returns
    pc,         \* where the program is: "call", "entry", "loop", "done"
                \* (in resolve) or "gui" (in gtk::main)
    frame,      \* the running call of resolve: nodes, command, i, partial
    text,       \* the text of the entry
    output,     \* what the output box shows
    spawned,    \* the processes spawned so far
    status      \* of the session: "running", "quit" or "panic"

vars == <<config, input, result, pc, frame, text, output, spawned, status>>

NotYet == [kind |-> "NotYet"]
NoFrame == [nodes |-> <<>>, command |-> <<>>, i |-> 0, partial |-> <<>>]

OutputNodes(nodes) == [kind |-> "nodes", nodes |-> nodes]
OutputText(t) == [kind |-> "text", text |-> t]
ShellModeText == "Enter a shell command.."

Process(program, args) == [program |-> program, args |-> args]

\* The command string of node i, when it has one.
CommandOf(i) == <<"cmd", i>>

\* The session's variables while only resolve is looked at.
NoSession ==
    /\ text = <<>>
    /\ output = OutputNodes(<<>>)
    /\ spawned = <<>>
    /\ status = "running"

\* The menus resolve is run on: every shape of at most maxNodes nodes and
\* every shortcut of at most shortcutLen characters (the empty one too).
\* resolve never reads command: the nodes either all have one or all have
\* none, as withCommand allows.
ResolverInit(maxNodes, shortcutLen, inputLen, withCommand) ==
    /\ \E n \in 0..maxNodes : \E parent \in Shapes(n) :
       \E sc \in [1..n -> Str(shortcutLen)], grp \in GroupFlags(parent),
          w \in withCommand :
          config = Config(<<>>, MenuOf(parent, sc,
                      [i \in 1..n |-> IF w THEN Some(CommandOf(i)) ELSE None],
                      grp))
    /\ input \in Str(inputLen)
    /\ result = NotYet
    /\ frame = NoFrame
    /\ NoSession

(***************************************************************************)
(* Spec: one call of resolve on the root nodes, taken as a function.       *)
(***************************************************************************)
Init ==
    /\ ResolverInit(MaxNodes, MaxShortcutLen, MaxInputLen, BOOLEAN)
    /\ pc = "call"

Resolve ==
    /\ pc = "call"
    /\ result' = resolve(config.node, borrow_nodes(config.menu), input)
    /\ pc' = "done"
    /\ UNCHANGED <<config, input, frame, text, output, spawned, status>>

Next == Resolve

Spec == Init /\ [][Next]_vars

(***************************************************************************)
(* StepSpec: the same call, one statement group at a time.  The recursive  *)
(* call is in tail position (return resolve(..)), so the callee's frame     *)
(* takes the caller's place.                                               *)
(***************************************************************************)
StepInit ==
    /\ ResolverInit(StepNodes, StepShortcutLen, StepInputLen, {FALSE})
    /\ pc = "call"

\* The caller: resolve(borrow_nodes(&menu), value), as at line 175 or 251.
ResolveCall ==
    /\ pc = "call"
    /\ frame' = [nodes |-> borrow_nodes(config.menu), command |-> input,
                 i |-> 0, partial |-> <<>>]
    /\ pc' = "entry"
    /\ UNCHANGED <<config, input, result, text, output, spawned, status>>

\* Lines 47-51.
ResolveEntry ==
    /\ pc = "entry"
    /\ IF str_len(frame.command) = 0
       THEN /\ result' = Partial(frame.nodes)
            /\ pc' = "done"
            /\ UNCHANGED frame
       ELSE /\ frame' = [frame EXCEPT !.partial = <<>>, !.i = 1]
            /\ pc' = "loop"
            /\ UNCHANGED result
    /\ UNCHANGED <<config, input, text, output, spawned, status>>

\* Lines 53-80: one turn of the for loop, on node frame.nodes[frame.i].
ResolveIterate ==
    /\ pc = "loop"
    /\ frame.i <= Len(frame.nodes)
    /\ LET n == frame.nodes[frame.i]
           partial2 == collect_partial(config.node, n, frame.command, frame.partial)
       IN  IF ~starts_with(frame.command, config.node[n].shortcut)
           THEN /\ frame' = [frame EXCEPT !.partial = partial2, !.i = frame.i + 1]
                /\ UNCHANGED <<result, pc>>
           ELSE LET o == match_outcome(config.node, n, frame.command)
                IN  IF o.kind = "return"
                    THEN /\ result' = o.value
                         /\ pc' = "done"
                         /\ frame' = [frame EXCEPT !.partial = partial2]
                    ELSE /\ frame' = [nodes |-> o.nodes, command |-> o.command,
                                      i |-> 0, partial |-> <<>>]
                         /\ pc' = "entry"
                         /\ UNCHANGED result
    /\ UNCHANGED <<config, input, text, output, spawned, status>>

\* Line 82: the loop is over and no node matched the front of the input.
ResolveLoopEnd ==
    /\ pc = "loop"
    /\ frame.i > Len(frame.nodes)
    /\ result' = Partial(frame.partial)
    /\ pc' = "done"
    /\ UNCHANGED <<config, input, frame, text, output, spawned, status>>

StepNext == ResolveCall \/ ResolveEntry \/ ResolveIterate \/ ResolveLoopEnd

StepSpec == StepInit /\ [][StepNext]_vars

\* resolve is called synchronously and nothing else runs: it keeps stepping.
FairStepSpec == StepSpec /\ WF_vars(StepNext)

(***************************************************************************)
(* SessionSpec: main (123-219) once the window is shown.  Each handler     *)
(* runs to its end before the next event is dispatched.                    *)
(***************************************************************************)
SessionInit ==
    /\ \E n \in 0..SessionNodes : \E parent \in Shapes(n) :
       \E sc \in [1..n -> Str(SessionStrLen)], grp \in GroupFlags(parent),
          has \in [1..n -> BOOLEAN], prefix \in Str(SessionStrLen) :
          config = Config(prefix, MenuOf(parent, sc,
                      [i \in 1..n |-> IF has[i] THEN Some(CommandOf(i)) ELSE None],
                      grp))
    /\ input = <<>>
    /\ result = NotYet
    /\ frame = NoFrame
    /\ pc = "gui"
    /\ text = <<>>
    /\ output = OutputNodes(borrow_nodes(config.menu))
    /\ spawned = <<>>
    /\ status = "running"

\* A wrong lines 182-187: the process is spawned and gtk::main_quit() is not
\* called.
launch_without_quit(command, ok, procs) ==
    IF command = None THEN [spawned |-> procs, status |-> "panic"]
    ELSE IF ok THEN [spawned |-> Append(procs, Process(command[1], <<>>)),
                     status |-> "running"]
    ELSE [spawned |-> procs, status |-> "panic"]

\* Lines 177-187: the Complete arm.  command is the node's command field, ok
\* whether the operating system starts the process.
launch(command, ok, procs) ==
    IF command = None THEN [spawned |-> procs, status |-> "panic"]
    ELSE IF ok THEN [spawned |-> Append(procs, Process(command[1], <<>>)),
                     status |-> "quit"]
    ELSE [spawned |-> procs, status |-> "panic"]

\* connect_changed (165-193): the entry's text has become value.
Changed(value) ==
    /\ pc = "gui"
    /\ status = "running"
    /\ value # text
    /\ text' = value
    /\ IF starts_with(value, config.shell_prefix)
       THEN /\ output' = OutputText(ShellModeText)
            /\ UNCHANGED <<spawned, status>>
       ELSE LET r == resolve(config.node, borrow_nodes(config.menu), value)
            IN  IF r.kind = "Complete"
                THEN \E ok \in BOOLEAN :
                        LET after == launch(config.node[r.node].command, ok, spawned)
                        IN  /\ spawned' = after.spawned
                            /\ status' = after.status
                            /\ UNCHANGED output
                ELSE /\ output' = OutputNodes(r.nodes)
                     /\ UNCHANGED <<spawned, status>>
    /\ UNCHANGED <<config, input, result, pc, frame>>

\* The text after the shell prefix (205-206), by the same skip as in resolve.
shell_command(value, shell_prefix) == chars_skip(value, str_len(shell_prefix))

\* connect_key_press_event (196-216): a key with value keyval is pressed.
KeyPress(keyval) ==
    /\ pc = "gui"
    /\ status = "running"
    /\ IF keyval = KEY_ENTER /\ starts_with(text, config.shell_prefix)
       THEN \E ok \in BOOLEAN :
               IF ok
               THEN /\ spawned' = Append(spawned,
                           Process("sh", <<"-c", shell_command(text, config.shell_prefix)>>))
                    /\ status' = "quit"
               ELSE /\ status' = "panic"
                    /\ UNCHANGED spawned
       ELSE /\ status' = IF keyval = KEY_ESCAPE THEN "quit" ELSE status
            /\ UNCHANGED spawned
    /\ UNCHANGED <<config, input, result, pc, frame, text, output>>

\* connect_delete_event (159-162): the window is closed.
DeleteEvent ==
    /\ pc = "gui"
    /\ status = "running"
    /\ status' = "quit"
    /\ UNCHANGED <<config, input, result, pc, frame, text, output, spawned>>

\* The keys told apart by the handler, and one other key.
Keys == {KEY_ESCAPE, KEY_ENTER, 97}

SessionNext ==
    \/ \E value \in Str(SessionInputLen) : Changed(value)
    \/ \E keyval \in Keys : KeyPress(keyval)
    \/ DeleteEvent

SessionSpec == SessionInit /\ [][SessionNext]_vars

(***************************************************************************)
(* Words the claims are stated in.  These speak of strings as sequences of *)
(* characters and of the menu as a tree; none of them is used by the model *)
(* of the program above.                                                   *)
(***************************************************************************)
IsPrefix(p, s) == Len(p) <= Len(s) /\ SubSeq(s, 1, Len(p)) = p

\* s with its prefix p removed from the front.
strip_prefix(s, p) == SubSeq(s, Len(p) + 1, Len(s))

NodeIds == DOMAIN config.node
ShortcutOf(n) == config.node[n].shortcut
HasChildren(n) == config.node[n].children # None
ChildrenOf(n) == config.node[n].children[1]

InSeq(x, q) == \E k \in 1..Len(q) : q[k] = x

\* The group n is a child of, 0 for a root node.
ParentOf(n) ==
    IF \E g \in NodeIds : HasChildren(g) /\ InSeq(n, ChildrenOf(g))
    THEN CHOOSE g \in NodeIds : HasChildren(g) /\ InSeq(n, ChildrenOf(g))
    ELSE 0

\* The shortcuts from a root node down to n, one after the other.
RECURSIVE PathText(_)
PathText(n) ==
    IF ParentOf(n) = 0 THEN ShortcutOf(n)
    ELSE PathText(ParentOf(n)) \o ShortcutOf(n)

\* The sibling lists of the menu: the root nodes, and each group's children.
SiblingLists ==
    {config.menu} \cup {ChildrenOf(g) : g \in {x \in NodeIds : HasChildren(x)}}

\* The data model of the menu: no shortcut is empty, and no node's shortcut
\* is a prefix of (or equal to) a sibling's.
NonEmptyShortcuts == \A n \in NodeIds : ShortcutOf(n) # <<>>

UniqueSiblings ==
    \A L \in SiblingLists : \A i, j \in 1..Len(L) :
        i # j => ShortcutOf(L[i]) # ShortcutOf(L[j])

PrefixFreeSiblings ==
    \A L \in SiblingLists : \A i, j \in 1..Len(L) :
        i # j => ~IsPrefix(ShortcutOf(L[i]), ShortcutOf(L[j]))

\* q is L with some of its elements left out (L has no element twice).
RECURSIVE IsSubseq(_, _)
IsSubseq(q, L) ==
    IF q = <<>> THEN TRUE
    ELSE IF L = <<>> THEN FALSE
    ELSE IF Head(q) = Head(L) THEN IsSubseq(Tail(q), Tail(L))
    ELSE IsSubseq(q, Tail(L))

\* The nodes of L whose shortcut begins with rem, in L's order.
RECURSIVE BeginningWith(_, _)
BeginningWith(L, rem) ==
    IF L = <<>> THEN <<>>
    ELSE (IF IsPrefix(rem, ShortcutOf(Head(L))) THEN <<Head(L)>> ELSE <<>>)
         \o BeginningWith(Tail(L), rem)

\* The index of the first node of L whose shortcut is a prefix of s, 0 if none.
FirstConsumed(L, s) ==
    IF \E k \in 1..Len(L) : IsPrefix(ShortcutOf(L[k]), s)
    THEN CHOOSE k \in 1..Len(L) :
            /\ IsPrefix(ShortcutOf(L[k]), s)
            /\ \A j \in 1..(k - 1) : ~IsPrefix(ShortcutOf(L[j]), s)
    ELSE 0

Returned == pc = "done"

(***************************************************************************)
(* Claims about resolve.                                                   *)
(***************************************************************************)

\* C1: an input equal to the shortcuts along a path from a root node down to
\* a node without children resolves to Complete of that node.  Stated here
\* on the menus of the data model alone (no empty shortcut, no shortcut a
\* prefix of a sibling's), where first-match order cannot matter.
C1_LeafPathCompletes ==
    (Returned /\ NonEmptyShortcuts /\ PrefixFreeSiblings) =>
        \A n \in NodeIds :
            (~HasChildren(n) /\ input = PathText(n)) => result = Complete(n)

\* C3: a non-empty input that, at the root level or below a group whose path
\* it has consumed, is a strict prefix of some shortcut resolves to Partial
\* of exactly the nodes of that level whose shortcut begins with what is
\* left of the input.  Stated on the menus of the data model, as C1.
C3_PartialOfMatches ==
    (Returned /\ NonEmptyShortcuts /\ PrefixFreeSiblings) =>
        /\ \A n \in NodeIds :
              (/\ ParentOf(n) = 0
               /\ input # <<>>
               /\ IsPrefix(input, ShortcutOf(n))
               /\ input # ShortcutOf(n))
              => result = Partial(BeginningWith(config.menu, input))
        /\ \A g \in NodeIds : \A k \in 1..(IF HasChildren(g) THEN Len(ChildrenOf(g)) ELSE 0) :
              LET rem == strip_prefix(input, PathText(g))
              IN  (/\ IsPrefix(PathText(g), input)
                   /\ rem # <<>>
                   /\ IsPrefix(rem, ShortcutOf(ChildrenOf(g)[k]))
                   /\ rem # ShortcutOf(ChildrenOf(g)[k]))
                  => result = Partial(BeginningWith(ChildrenOf(g), rem))

\* C8: for a non-empty input, the first root node whose shortcut is a prefix
\* of the input decides the result, with the input left after that shortcut:
\* Complete of it, Partial of its children, resolve of its children on the
\* rest, or the empty Partial when it has no children and input is left.
C8_FirstMatchDecides ==
    (Returned /\ input # <<>> /\ FirstConsumed(config.menu, input) # 0) =>
        LET n == config.menu[FirstConsumed(config.menu, input)]
            rem == strip_prefix(input, ShortcutOf(n))
        IN  result =
              IF rem = <<>>
              THEN (IF HasChildren(n) THEN Partial(ChildrenOf(n)) ELSE Complete(n))
              ELSE (IF HasChildren(n)
                    THEN resolve(config.node, ChildrenOf(n), rem)
                    ELSE Partial(<<>>))

\* C9: when resolve returns Complete(n), n has no children and the input is
\* exactly the shortcuts on the path from a root node down to n.
C9_CompleteIsExactLeaf ==
    (Returned /\ result.kind = "Complete") =>
        /\ ~HasChildren(result.node)
        /\ input = PathText(result.node)

\* C10: the remaining input resolve computes at the node whose shortcut it
\* finds at the front of the input is the input without that prefix.
C10_RemainingIsSuffix ==
    (Returned /\ input # <<>> /\ FirstConsumed(config.menu, input) # 0) =>
        LET n == config.menu[FirstConsumed(config.menu, input)]
        IN  remaining_of(input, ShortcutOf(n)) = strip_prefix(input, ShortcutOf(n))

NoMatch ==
    /\ input # <<>>
    /\ \A k \in 1..Len(config.menu) :
          /\ ~IsPrefix(ShortcutOf(config.menu[k]), input)
          /\ ~IsPrefix(input, ShortcutOf(config.menu[k]))

\* A Partial of nodes of the menu, or a Complete of one.
IsResolution(r) ==
    \/ /\ r.kind = "Partial"
       /\ DOMAIN r = {"kind", "nodes"}
       /\ \A k \in 1..Len(r.nodes) : r.nodes[k] \in NodeIds
    \/ /\ r.kind = "Complete"
       /\ DOMAIN r = {"kind", "node"}
       /\ r.node \in NodeIds

\* The nodes of the subtree below and including n.
RECURSIVE Subtree(_)
Subtree(n) ==
    {n} \cup (IF HasChildren(n)
              THEN UNION {Subtree(ChildrenOf(n)[k]) : k \in 1..Len(ChildrenOf(n))}
              ELSE {})

\* The nodes the running call may still look at: those of its list from the
\* current one on, and all below them.
Ahead ==
    UNION {Subtree(frame.nodes[k]) :
             k \in (IF frame.i = 0 THEN 1 ELSE frame.i)..Len(frame.nodes)}

\* How far resolve is from returning, at most.
StepsLeft ==
    CASE pc = "call" -> 2 * Cardinality(NodeIds) + 3
      [] pc = "entry" -> 2 * Cardinality(Ahead) + 2
      [] pc = "loop" -> 2 * Cardinality(Ahead) + 1
      [] OTHER -> 0

\* C4: on every menu (empty shortcuts, nodes with neither command nor
\* children and empty groups included) and every input, resolve returns:
\* until it has, it always has a next step, and each step brings it nearer
\* to its return.  What it returns is one Resolution, Partial or Complete,
\* never a failure; an input that matches no root node in either direction
\* gives the empty Partial.
C4_ResolveReturns ==
    /\ [](~Returned => ENABLED StepNext)
    /\ [][StepsLeft' < StepsLeft]_vars
    /\ [](Returned => /\ IsResolution(result)
                      /\ NoMatch => result = Partial(<<>>))

\* C4's return, as an eventuality: under FairStepSpec resolve returns.
ResolveTerminates == <>Returned

\* resolve has returned the empty Partial after entering, with input left, a
\* group that has an empty shortcut and an empty children list.
C4_Witness ==
    /\ Returned
    /\ input # <<>>
    /\ result = Partial(<<>>)
    /\ frame.nodes = <<>>
    /\ frame.command = input
    /\ \E k \in 1..Len(config.menu) :
          /\ ShortcutOf(config.menu[k]) = <<>>
          /\ config.node[config.menu[k]].children = Some(<<>>)
          /\ config.node[config.menu[k]].command = None

\* C5: the nodes of a Partial result are nodes of one sibling list (the root
\* nodes or one group's children), each at most once and in that list's
\* order; for an empty input they are all the root nodes in their order.
C5_PartialKeepsOrder ==
    (Returned /\ result.kind = "Partial") =>
        /\ \E L \in SiblingLists : IsSubseq(result.nodes, L)
        /\ \A i, j \in 1..Len(result.nodes) :
              i # j => result.nodes[i] # result.nodes[j]
        /\ input = <<>> => result.nodes = config.menu

\* resolve has returned two root nodes collected by the loop, the second root
\* node after the first.
C5_Witness ==
    /\ Returned
    /\ input # <<>>
    /\ Len(config.menu) = 2
    /\ result = Partial(config.menu)

\* The step-by-step run returns what resolve, taken as a function, returns.
StepsAgreeWithResolve ==
    Returned => result = resolve(config.node, borrow_nodes(config.menu), input)

(***************************************************************************)
(* Claims about the session.                                               *)
(***************************************************************************)

\* The step is a run of the input-change handler: only it changes the text.
TextChanges == text' # text

\* The step is a run of the key handler for Enter.
EnterPressed == KeyPress(KEY_ENTER)

\* The step spawns a process with no arguments: a menu command.
SpawnsMenuCommand ==
    /\ Len(spawned') = Len(spawned) + 1
    /\ spawned'[Len(spawned')].args = <<>>

\* The step launches node n: its command is spawned and the session quits, or
\* the session ends in a panic with nothing spawned, as it must when n has
\* no command.
Launches(n) ==
    LET c == config.node[n].command
    IN  /\ \/ /\ c # None
              /\ spawned' = Append(spawned, Process(c[1], <<>>))
              /\ status' = "quit"
           \/ /\ status' = "panic"
              /\ spawned' = spawned
        /\ c = None => status' = "panic"

\* C6 as stated: an input change whose value resolves to Complete(n) launches
\* n in the same step.  Read on sessions whose shell prefix is not empty.
C6_CompleteLaunches ==
    [][(config.shell_prefix # <<>> /\ TextChanges) =>
          LET r == resolve(config.node, config.menu, text')
          IN  r.kind = "Complete" => Launches(r.node)]_vars

\* C6, amended: a menu command is spawned exactly when an input change
\* produces a value that does not begin with the shell prefix and resolves
\* to Complete(n): the handler then spawns n.command and ends the session in
\* the same step, or the session ends in a panic when n.command is absent or
\* the spawn fails.  An input change to such a value that resolves to Partial
\* spawns nothing and shows the Partial's nodes; an input change to a value
\* that begins with the shell prefix spawns nothing.
C6_UndivertedCompleteLaunches ==
    [][/\ TextChanges =>
            IF IsPrefix(config.shell_prefix, text')
            THEN /\ spawned' = spawned
                 /\ status' = status
            ELSE LET r == resolve(config.node, config.menu, text')
                 IN  IF r.kind = "Complete"
                     THEN Launches(r.node)
                     ELSE /\ r.kind = "Partial"
                          /\ spawned' = spawned
                          /\ status' = status
                          /\ output' = OutputNodes(r.nodes)
       /\ SpawnsMenuCommand =>
            /\ TextChanges
            /\ ~IsPrefix(config.shell_prefix, text')
            /\ resolve(config.node, config.menu, text').kind = "Complete"]_vars

\* An input change has launched a node's command and ended the session.
C6_Witness ==
    /\ status = "quit"
    /\ Len(spawned) = 1
    /\ spawned[1].args = <<>>
    /\ \E n \in NodeIds : config.node[n].command = Some(spawned[1].program)
    /\ text # <<>>

\* C7: input that begins with the shell prefix is kept from the menu: the
\* input-change handler shows the shell-mode message and spawns nothing;
\* Enter on such input spawns sh -c with the input less the shell prefix and
\* ends the session if the spawn succeeds; Enter on other input spawns
\* nothing.
C7_ShellPrefixDiverts ==
    [][/\ (TextChanges /\ IsPrefix(config.shell_prefix, text'))
             => /\ output' = OutputText(ShellModeText)
                /\ spawned' = spawned
                /\ status' = status
       /\ (EnterPressed /\ IsPrefix(config.shell_prefix, text))
             => \/ /\ spawned' = Append(spawned,
                          Process("sh", <<"-c", strip_prefix(text, config.shell_prefix)>>))
                   /\ status' = "quit"
                \/ /\ spawned' = spawned
                   /\ status' = "panic"
       /\ (EnterPressed /\ ~IsPrefix(config.shell_prefix, text))
             => spawned' = spawned]_vars

====
